---- MODULE Spec2Model ----
(***************************************************************************)
(* A model of the PDF-to-speech core (src/core): the text extractor, the   *)
(* speech synthesizer and the conversion orchestrator.                     *)
(*                                                                         *)
(* Strings that the code inspects (page text, extracted text, locales,     *)
(* display names) are sequences of characters, each character its code     *)
(* point; strings that it only passes around or embeds in messages (paths, *)
(* short names of voices, exception texts) are TLA+ strings.               *)
(* PyPDF2 and edge_tts are external: what they can do at each call is a    *)
(* nondeterministic choice of the environment.                             *)
(***************************************************************************)
EXTENDS Integers, Sequences, FiniteSets, TLC

\* ------------------------------------------------------------------ bounds
MaxLen == 2
MaxPages == 2
MaxLoads == 2
MaxConversions == 1

\* ------------------------------------------------------------- text values
\* A character is its code point.  The page texts and the texts to speak are
\* made of a letter, the space and a space beyond ASCII: "a", " ", U+1680.
Chars == {97, 32, 5760}
\* str.strip() with no argument removes the characters for which str.isspace()
\* holds: U+0009 to U+000D, U+001C to U+001F, the space, U+0085, U+00A0,
\* U+1680, U+2000 to U+200A, U+2028, U+2029, U+202F, U+205F and U+3000.
Whitespace ==
    (9..13) \cup (28..31) \cup {32, 133, 160, 5760} \cup (8192..8202)
        \cup {8232, 8233, 8239, 8287, 12288}

RECURSIVE SeqsUpTo(_, _)
SeqsUpTo(S, n) ==
    IF n = 0 THEN {<<>>}
    ELSE LET shorter == SeqsUpTo(S, n - 1)
         IN  shorter \cup {Append(s, x) : s \in {t \in shorter : Len(t) = n - 1}, x \in S}

Texts == SeqsUpTo(Chars, MaxLen)
PageLists == SeqsUpTo(Texts, MaxPages)

RECURSIVE LStrip(_)
LStrip(s) ==
    IF s = <<>> THEN <<>>
    ELSE IF Head(s) \in Whitespace THEN LStrip(Tail(s)) ELSE s

RECURSIVE RStrip(_)
RStrip(s) ==
    IF s = <<>> THEN <<>>
    ELSE IF s[Len(s)] \in Whitespace THEN RStrip(SubSeq(s, 1, Len(s) - 1)) ELSE s

Strip(s) == RStrip(LStrip(s))

\* "\n".join(parts)
\* Variant for sensitivity runs: the parts are joined with nothing between.
RECURSIVE JoinNoNewline(_)
JoinNoNewline(parts) ==
    IF parts = <<>> THEN <<>> ELSE parts[1] \o JoinNoNewline(Tail(parts))
RECURSIVE Join(_)
Join(parts) ==
    IF parts = <<>> THEN <<>>
    ELSE IF Len(parts) = 1 THEN parts[1]
    ELSE parts[1] \o <<10>> \o Join(Tail(parts))

\* A Python value of type `str | None`
PyNone == [none |-> TRUE, s |-> <<>>]
PyStr(s) == [none |-> FALSE, s |-> s]
\* `not v` for such a value: None and "" are falsy
Falsy(v) == v.none \/ v.s = <<>>

\* ---------------------------------------------------------------- extractor
\* What lies at a path when extract_text_from_pdf opens it.
\*   missing     open() raises FileNotFoundError
\*   unreadable  open() or the library raises some other exception
\*   corrupt     PdfReader raises PdfReadError
\*   pdf         a readable PDF; enc says how it is protected:
\*     plain, empty_password (decrypt('') works),
\*     decrypt_raises (decrypt('') raises), locked (decrypt('') returns
\*     without decrypting and reading the pages raises PdfReadError)
Encryptions == {"plain", "empty_password", "decrypt_raises", "locked"}

PdfFile(k, e, ps) == [kind |-> k, enc |-> e, pages |-> ps]

PdfFiles ==
    {PdfFile(k, "plain", <<>>) : k \in {"missing", "unreadable", "corrupt"}}
    \cup {PdfFile("pdf", e, ps) : e \in Encryptions, ps \in PageLists}

\* The files the orchestrator is run on: it reads nothing of a file but what
\* the extractor returns, so documents of at most one page stand for the rest.
ShortPdfFiles == {f \in PdfFiles : Len(f.pages) <= 1}

\* The condition of the file, in the words of the failure taxonomy; "Text"
\* when some page holds a character that is not whitespace.
FileClass(f) ==
    CASE f.kind = "missing"    -> "NotFound"
      [] f.kind = "unreadable" -> "Unknown"
      [] f.kind = "corrupt"    -> "Corrupted"
      [] OTHER ->
           IF f.enc \in {"decrypt_raises", "locked"} THEN "Encrypted"
           ELSE IF \A i \in DOMAIN f.pages :
                      \A j \in DOMAIN f.pages[i] : f.pages[i][j] \in Whitespace
           THEN "Empty"
           ELSE "Text"

ExtractResult(x, r, l) == [raised |-> x, ret |-> r, log |-> l]

\* The try body of extract_text_from_pdf: the exception it raises ("none" if
\* it returns), the value it returns and the line it prints.
\* Variant for sensitivity runs: the joined text is not stripped.
TryBodyNoStrip(f) ==
    CASE f.kind = "missing"    -> ExtractResult("FileNotFoundError", PyNone, "none")
      [] f.kind = "unreadable" -> ExtractResult("Exception", PyNone, "none")
      [] f.kind = "corrupt"    -> ExtractResult("PdfReadError", PyNone, "none")
      [] OTHER ->
           IF f.enc = "decrypt_raises"
           THEN ExtractResult("none", PyNone, "could_not_decrypt")
           ELSE IF f.enc = "locked"
           THEN ExtractResult("PdfReadError", PyNone, "none")
           ELSE LET full_text == Join(f.pages)
                IN  ExtractResult("none", PyStr(full_text),
                                  IF full_text = <<>> THEN "warning_no_text" ELSE "none")
TryBody(f) ==
    CASE f.kind = "missing"    -> ExtractResult("FileNotFoundError", PyNone, "none")
      [] f.kind = "unreadable" -> ExtractResult("Exception", PyNone, "none")
      [] f.kind = "corrupt"    -> ExtractResult("PdfReadError", PyNone, "none")
      [] OTHER ->
           IF f.enc = "decrypt_raises"
           THEN ExtractResult("none", PyNone, "could_not_decrypt")
           ELSE IF f.enc = "locked"
           THEN ExtractResult("PdfReadError", PyNone, "none")
           ELSE LET full_text == Strip(Join(f.pages))
                IN  ExtractResult("none", PyStr(full_text),
                                  IF full_text = <<>> THEN "warning_no_text" ELSE "none")

\* The except clauses of extract_text_from_pdf: each prints and returns None.
\* Variant for sensitivity runs: the except clauses let the exception through.
HandlersReraise(r) == r
Handlers(r) ==
    CASE r.raised = "none"              -> r
      [] r.raised = "FileNotFoundError" -> ExtractResult("none", PyNone, "not_found")
      [] r.raised = "PdfReadError"      -> ExtractResult("none", PyNone, "could_not_read")
      [] OTHER                          -> ExtractResult("none", PyNone, "unexpected_error")

extract_text_from_pdf(f) == Handlers(TryBody(f))

\* -------------------------------------------------------------- synthesizer
Voices == {"en-US-AriaNeural", "xx-XX-NoSuchNeural"}
ValidVoices == {"en-US-AriaNeural"}
OutPaths == {"out1.mp3", "out2.mp3"}

\* edge_tts.Communicate(text, voice): newer releases reject a malformed voice
\* in the constructor, older ones only when the service answers.
CtorOutcomes(voice) == IF voice \in ValidVoices THEN {"ok"} ELSE {"ok", "raises"}

\* How `await communicate.save(output_filename)` can end: the audio written,
\* NoAudioReceived, some other exception (network, I/O), or CancelledError
\* thrown into the await because the task was cancelled while the save was
\* pending.  Only a voice of the catalog yields audio.
SaveEnds == {"saved", "NoAudioReceived", "Exception", "CancelledError"}
SaveOutcomes(voice) ==
    IF voice \in ValidVoices THEN SaveEnds ELSE SaveEnds \ {"saved"}

\* The file at the output path after save ended with b: save opens the file
\* for writing before it streams, so a failed save leaves the file as it was
\* (the open itself failed) or leaves whatever had been written; a
\* cancellation can come after the last chunk was written.
FileAfterSave(b, before) ==
    CASE b = "saved"          -> {"complete"}
      [] b = "CancelledError" -> {before, "partial", "complete"}
      [] OTHER                -> {before, "partial"}

SynthState(c, r, l, b, ev) == [spc |-> c, sret |-> r, slog |-> l, backend |-> b, events |-> ev]

\* synthesize_speech up to its suspension point: the guard on the text, the
\* Communicate object, the call of save.
\* Variant for sensitivity runs: the guard on blank text is missing.
SynthBeginNoGuard(text, ctor) ==
    IF ctor = "raises"
    THEN SynthState("returned", FALSE, "unexpected_error", "idle", <<"Communicate">>)
    ELSE SynthState("saving", FALSE, "starting", "pending", <<"Communicate", "save">>)
SynthBegin(text, ctor) ==
    IF Strip(text) = <<>>
    THEN SynthState("returned", FALSE, "no_text_provided", "idle", <<>>)
    ELSE IF ctor = "raises"
    THEN SynthState("returned", FALSE, "unexpected_error", "idle", <<"Communicate">>)
    ELSE SynthState("saving", FALSE, "starting", "pending", <<"Communicate", "save">>)

\* synthesize_speech from the end of save to its end: whether it returns or
\* lets the exception out, the value returned and the line printed.
\* CancelledError is no Exception: neither except clause catches it, nothing
\* is printed and nothing is returned.
\* Variant for sensitivity runs: the except clauses return True as well.
SynthEndAlwaysTrue(b, log) ==
    IF b = "CancelledError" THEN [spc |-> "cancelled", sret |-> FALSE, slog |-> log]
    ELSE [spc |-> "returned", sret |-> TRUE, slog |-> "saved"]
SynthEnd(b, log) ==
    CASE b = "saved"           -> [spc |-> "returned", sret |-> TRUE, slog |-> "saved"]
      [] b = "NoAudioReceived" -> [spc |-> "returned", sret |-> FALSE, slog |-> "no_audio_received"]
      [] b = "CancelledError"  -> [spc |-> "cancelled", sret |-> FALSE, slog |-> log]
      [] OTHER                 -> [spc |-> "returned", sret |-> FALSE, slog |-> "unexpected_error"]

\* ------------------------------------------------------------ voice catalog
\* str.lower(), by the character tables of Unicode 14.0 that CPython 3.11
\* carries.
\* LowerRuns holds <<first, last, step, delta>>: every step-th character from
\* first to last has the one lower-case character delta code points away.
LowerRuns == {
    <<65, 90, 1, 32>>, <<192, 214, 1, 32>>, <<216, 222, 1, 32>>, <<256, 302, 2, 1>>,
    <<306, 310, 2, 1>>, <<313, 327, 2, 1>>, <<330, 374, 2, 1>>, <<376, 376, 1, -121>>,
    <<377, 381, 2, 1>>, <<385, 385, 1, 210>>, <<386, 388, 2, 1>>, <<390, 390, 1, 206>>,
    <<391, 391, 1, 1>>, <<393, 394, 1, 205>>, <<395, 395, 1, 1>>, <<398, 398, 1, 79>>,
    <<399, 399, 1, 202>>, <<400, 400, 1, 203>>, <<401, 401, 1, 1>>, <<403, 403, 1, 205>>,
    <<404, 404, 1, 207>>, <<406, 406, 1, 211>>, <<407, 407, 1, 209>>, <<408, 408, 1, 1>>,
    <<412, 412, 1, 211>>, <<413, 413, 1, 213>>, <<415, 415, 1, 214>>, <<416, 420, 2, 1>>,
    <<422, 422, 1, 218>>, <<423, 423, 1, 1>>, <<425, 425, 1, 218>>, <<428, 428, 1, 1>>,
    <<430, 430, 1, 218>>, <<431, 431, 1, 1>>, <<433, 434, 1, 217>>, <<435, 437, 2, 1>>,
    <<439, 439, 1, 219>>, <<440, 440, 1, 1>>, <<444, 444, 1, 1>>, <<452, 452, 1, 2>>,
    <<453, 453, 1, 1>>, <<455, 455, 1, 2>>, <<456, 456, 1, 1>>, <<458, 458, 1, 2>>,
    <<459, 475, 2, 1>>, <<478, 494, 2, 1>>, <<497, 497, 1, 2>>, <<498, 500, 2, 1>>,
    <<502, 502, 1, -97>>, <<503, 503, 1, -56>>, <<504, 542, 2, 1>>, <<544, 544, 1, -130>>,
    <<546, 562, 2, 1>>, <<570, 570, 1, 10795>>, <<571, 571, 1, 1>>, <<573, 573, 1, -163>>,
    <<574, 574, 1, 10792>>, <<577, 577, 1, 1>>, <<579, 579, 1, -195>>, <<580, 580, 1, 69>>,
    <<581, 581, 1, 71>>, <<582, 590, 2, 1>>, <<880, 882, 2, 1>>, <<886, 886, 1, 1>>,
    <<895, 895, 1, 116>>, <<902, 902, 1, 38>>, <<904, 906, 1, 37>>, <<908, 908, 1, 64>>,
    <<910, 911, 1, 63>>, <<913, 929, 1, 32>>, <<931, 939, 1, 32>>, <<975, 975, 1, 8>>,
    <<984, 1006, 2, 1>>, <<1012, 1012, 1, -60>>, <<1015, 1015, 1, 1>>, <<1017, 1017, 1, -7>>,
    <<1018, 1018, 1, 1>>, <<1021, 1023, 1, -130>>, <<1024, 1039, 1, 80>>,
    <<1040, 1071, 1, 32>>, <<1120, 1152, 2, 1>>, <<1162, 1214, 2, 1>>, <<1216, 1216, 1, 15>>,
    <<1217, 1229, 2, 1>>, <<1232, 1326, 2, 1>>, <<1329, 1366, 1, 48>>, <<4256, 4293, 1, 7264>>,
    <<4295, 4295, 1, 7264>>, <<4301, 4301, 1, 7264>>, <<5024, 5103, 1, 38864>>,
    <<5104, 5109, 1, 8>>, <<7312, 7354, 1, -3008>>, <<7357, 7359, 1, -3008>>,
    <<7680, 7828, 2, 1>>, <<7838, 7838, 1, -7615>>, <<7840, 7934, 2, 1>>,
    <<7944, 7951, 1, -8>>, <<7960, 7965, 1, -8>>, <<7976, 7983, 1, -8>>, <<7992, 7999, 1, -8>>,
    <<8008, 8013, 1, -8>>, <<8025, 8031, 2, -8>>, <<8040, 8047, 1, -8>>, <<8072, 8079, 1, -8>>,
    <<8088, 8095, 1, -8>>, <<8104, 8111, 1, -8>>, <<8120, 8121, 1, -8>>,
    <<8122, 8123, 1, -74>>, <<8124, 8124, 1, -9>>, <<8136, 8139, 1, -86>>,
    <<8140, 8140, 1, -9>>, <<8152, 8153, 1, -8>>, <<8154, 8155, 1, -100>>,
    <<8168, 8169, 1, -8>>, <<8170, 8171, 1, -112>>, <<8172, 8172, 1, -7>>,
    <<8184, 8185, 1, -128>>, <<8186, 8187, 1, -126>>, <<8188, 8188, 1, -9>>,
    <<8486, 8486, 1, -7517>>, <<8490, 8490, 1, -8383>>, <<8491, 8491, 1, -8262>>,
    <<8498, 8498, 1, 28>>, <<8544, 8559, 1, 16>>, <<8579, 8579, 1, 1>>, <<9398, 9423, 1, 26>>,
    <<11264, 11311, 1, 48>>, <<11360, 11360, 1, 1>>, <<11362, 11362, 1, -10743>>,
    <<11363, 11363, 1, -3814>>, <<11364, 11364, 1, -10727>>, <<11367, 11371, 2, 1>>,
    <<11373, 11373, 1, -10780>>, <<11374, 11374, 1, -10749>>, <<11375, 11375, 1, -10783>>,
    <<11376, 11376, 1, -10782>>, <<11378, 11378, 1, 1>>, <<11381, 11381, 1, 1>>,
    <<11390, 11391, 1, -10815>>, <<11392, 11490, 2, 1>>, <<11499, 11501, 2, 1>>,
    <<11506, 11506, 1, 1>>, <<42560, 42604, 2, 1>>, <<42624, 42650, 2, 1>>,
    <<42786, 42798, 2, 1>>, <<42802, 42862, 2, 1>>, <<42873, 42875, 2, 1>>,
    <<42877, 42877, 1, -35332>>, <<42878, 42886, 2, 1>>, <<42891, 42891, 1, 1>>,
    <<42893, 42893, 1, -42280>>, <<42896, 42898, 2, 1>>, <<42902, 42920, 2, 1>>,
    <<42922, 42922, 1, -42308>>, <<42923, 42923, 1, -42319>>, <<42924, 42924, 1, -42315>>,
    <<42925, 42925, 1, -42305>>, <<42926, 42926, 1, -42308>>, <<42928, 42928, 1, -42258>>,
    <<42929, 42929, 1, -42282>>, <<42930, 42930, 1, -42261>>, <<42931, 42931, 1, 928>>,
    <<42932, 42946, 2, 1>>, <<42948, 42948, 1, -48>>, <<42949, 42949, 1, -42307>>,
    <<42950, 42950, 1, -35384>>, <<42951, 42953, 2, 1>>, <<42960, 42960, 1, 1>>,
    <<42966, 42968, 2, 1>>, <<42997, 42997, 1, 1>>, <<65313, 65338, 1, 32>>,
    <<66560, 66599, 1, 40>>, <<66736, 66771, 1, 40>>, <<66928, 66964, 2, 39>>,
    <<66929, 66937, 2, 39>>, <<66941, 66953, 2, 39>>, <<66957, 66961, 2, 39>>,
    <<66965, 66965, 1, 39>>, <<68736, 68786, 1, 64>>, <<71840, 71871, 1, 32>>,
    <<93760, 93791, 1, 32>>, <<125184, 125217, 1, 34>> }
\* The characters the final-sigma rule skips (Case_Ignorable), as <<first, last>>.
CaseIgnorable == {
    <<39, 39>>, <<46, 46>>, <<58, 58>>, <<94, 94>>, <<96, 96>>, <<168, 168>>, <<173, 173>>,
    <<175, 175>>, <<180, 180>>, <<183, 184>>, <<688, 879>>, <<884, 885>>, <<890, 890>>,
    <<900, 901>>, <<903, 903>>, <<1155, 1161>>, <<1369, 1369>>, <<1375, 1375>>, <<1425, 1469>>,
    <<1471, 1471>>, <<1473, 1474>>, <<1476, 1477>>, <<1479, 1479>>, <<1524, 1524>>,
    <<1536, 1541>>, <<1552, 1562>>, <<1564, 1564>>, <<1600, 1600>>, <<1611, 1631>>,
    <<1648, 1648>>, <<1750, 1757>>, <<1759, 1768>>, <<1770, 1773>>, <<1807, 1807>>,
    <<1809, 1809>>, <<1840, 1866>>, <<1958, 1968>>, <<2027, 2037>>, <<2042, 2042>>,
    <<2045, 2045>>, <<2070, 2093>>, <<2137, 2139>>, <<2184, 2184>>, <<2192, 2193>>,
    <<2200, 2207>>, <<2249, 2306>>, <<2362, 2362>>, <<2364, 2364>>, <<2369, 2376>>,
    <<2381, 2381>>, <<2385, 2391>>, <<2402, 2403>>, <<2417, 2417>>, <<2433, 2433>>,
    <<2492, 2492>>, <<2497, 2500>>, <<2509, 2509>>, <<2530, 2531>>, <<2558, 2558>>,
    <<2561, 2562>>, <<2620, 2620>>, <<2625, 2626>>, <<2631, 2632>>, <<2635, 2637>>,
    <<2641, 2641>>, <<2672, 2673>>, <<2677, 2677>>, <<2689, 2690>>, <<2748, 2748>>,
    <<2753, 2757>>, <<2759, 2760>>, <<2765, 2765>>, <<2786, 2787>>, <<2810, 2815>>,
    <<2817, 2817>>, <<2876, 2876>>, <<2879, 2879>>, <<2881, 2884>>, <<2893, 2893>>,
    <<2901, 2902>>, <<2914, 2915>>, <<2946, 2946>>, <<3008, 3008>>, <<3021, 3021>>,
    <<3072, 3072>>, <<3076, 3076>>, <<3132, 3132>>, <<3134, 3136>>, <<3142, 3144>>,
    <<3146, 3149>>, <<3157, 3158>>, <<3170, 3171>>, <<3201, 3201>>, <<3260, 3260>>,
    <<3263, 3263>>, <<3270, 3270>>, <<3276, 3277>>, <<3298, 3299>>, <<3328, 3329>>,
    <<3387, 3388>>, <<3393, 3396>>, <<3405, 3405>>, <<3426, 3427>>, <<3457, 3457>>,
    <<3530, 3530>>, <<3538, 3540>>, <<3542, 3542>>, <<3633, 3633>>, <<3636, 3642>>,
    <<3654, 3662>>, <<3761, 3761>>, <<3764, 3772>>, <<3782, 3782>>, <<3784, 3789>>,
    <<3864, 3865>>, <<3893, 3893>>, <<3895, 3895>>, <<3897, 3897>>, <<3953, 3966>>,
    <<3968, 3972>>, <<3974, 3975>>, <<3981, 3991>>, <<3993, 4028>>, <<4038, 4038>>,
    <<4141, 4144>>, <<4146, 4151>>, <<4153, 4154>>, <<4157, 4158>>, <<4184, 4185>>,
    <<4190, 4192>>, <<4209, 4212>>, <<4226, 4226>>, <<4229, 4230>>, <<4237, 4237>>,
    <<4253, 4253>>, <<4348, 4348>>, <<4957, 4959>>, <<5906, 5908>>, <<5938, 5939>>,
    <<5970, 5971>>, <<6002, 6003>>, <<6068, 6069>>, <<6071, 6077>>, <<6086, 6086>>,
    <<6089, 6099>>, <<6103, 6103>>, <<6109, 6109>>, <<6155, 6159>>, <<6211, 6211>>,
    <<6277, 6278>>, <<6313, 6313>>, <<6432, 6434>>, <<6439, 6440>>, <<6450, 6450>>,
    <<6457, 6459>>, <<6679, 6680>>, <<6683, 6683>>, <<6742, 6742>>, <<6744, 6750>>,
    <<6752, 6752>>, <<6754, 6754>>, <<6757, 6764>>, <<6771, 6780>>, <<6783, 6783>>,
    <<6823, 6823>>, <<6832, 6862>>, <<6912, 6915>>, <<6964, 6964>>, <<6966, 6970>>,
    <<6972, 6972>>, <<6978, 6978>>, <<7019, 7027>>, <<7040, 7041>>, <<7074, 7077>>,
    <<7080, 7081>>, <<7083, 7085>>, <<7142, 7142>>, <<7144, 7145>>, <<7149, 7149>>,
    <<7151, 7153>>, <<7212, 7219>>, <<7222, 7223>>, <<7288, 7293>>, <<7376, 7378>>,
    <<7380, 7392>>, <<7394, 7400>>, <<7405, 7405>>, <<7412, 7412>>, <<7416, 7417>>,
    <<7468, 7530>>, <<7544, 7544>>, <<7579, 7679>>, <<8125, 8125>>, <<8127, 8129>>,
    <<8141, 8143>>, <<8157, 8159>>, <<8173, 8175>>, <<8189, 8190>>, <<8203, 8207>>,
    <<8216, 8217>>, <<8228, 8228>>, <<8231, 8231>>, <<8234, 8238>>, <<8288, 8292>>,
    <<8294, 8303>>, <<8305, 8305>>, <<8319, 8319>>, <<8336, 8348>>, <<8400, 8432>>,
    <<11388, 11389>>, <<11503, 11505>>, <<11631, 11631>>, <<11647, 11647>>, <<11744, 11775>>,
    <<11823, 11823>>, <<12293, 12293>>, <<12330, 12333>>, <<12337, 12341>>, <<12347, 12347>>,
    <<12441, 12446>>, <<12540, 12542>>, <<40981, 40981>>, <<42232, 42237>>, <<42508, 42508>>,
    <<42607, 42610>>, <<42612, 42621>>, <<42623, 42623>>, <<42652, 42655>>, <<42736, 42737>>,
    <<42752, 42785>>, <<42864, 42864>>, <<42888, 42890>>, <<42994, 42996>>, <<43000, 43001>>,
    <<43010, 43010>>, <<43014, 43014>>, <<43019, 43019>>, <<43045, 43046>>, <<43052, 43052>>,
    <<43204, 43205>>, <<43232, 43249>>, <<43263, 43263>>, <<43302, 43309>>, <<43335, 43345>>,
    <<43392, 43394>>, <<43443, 43443>>, <<43446, 43449>>, <<43452, 43453>>, <<43471, 43471>>,
    <<43493, 43494>>, <<43561, 43566>>, <<43569, 43570>>, <<43573, 43574>>, <<43587, 43587>>,
    <<43596, 43596>>, <<43632, 43632>>, <<43644, 43644>>, <<43696, 43696>>, <<43698, 43700>>,
    <<43703, 43704>>, <<43710, 43711>>, <<43713, 43713>>, <<43741, 43741>>, <<43756, 43757>>,
    <<43763, 43764>>, <<43766, 43766>>, <<43867, 43871>>, <<43881, 43883>>, <<44005, 44005>>,
    <<44008, 44008>>, <<44013, 44013>>, <<64286, 64286>>, <<64434, 64450>>, <<65024, 65039>>,
    <<65043, 65043>>, <<65056, 65071>>, <<65106, 65106>>, <<65109, 65109>>, <<65279, 65279>>,
    <<65287, 65287>>, <<65294, 65294>>, <<65306, 65306>>, <<65342, 65342>>, <<65344, 65344>>,
    <<65392, 65392>>, <<65438, 65439>>, <<65507, 65507>>, <<65529, 65531>>, <<66045, 66045>>,
    <<66272, 66272>>, <<66422, 66426>>, <<67456, 67461>>, <<67463, 67504>>, <<67506, 67514>>,
    <<68097, 68099>>, <<68101, 68102>>, <<68108, 68111>>, <<68152, 68154>>, <<68159, 68159>>,
    <<68325, 68326>>, <<68900, 68903>>, <<69291, 69292>>, <<69446, 69456>>, <<69506, 69509>>,
    <<69633, 69633>>, <<69688, 69702>>, <<69744, 69744>>, <<69747, 69748>>, <<69759, 69761>>,
    <<69811, 69814>>, <<69817, 69818>>, <<69821, 69821>>, <<69826, 69826>>, <<69837, 69837>>,
    <<69888, 69890>>, <<69927, 69931>>, <<69933, 69940>>, <<70003, 70003>>, <<70016, 70017>>,
    <<70070, 70078>>, <<70089, 70092>>, <<70095, 70095>>, <<70191, 70193>>, <<70196, 70196>>,
    <<70198, 70199>>, <<70206, 70206>>, <<70367, 70367>>, <<70371, 70378>>, <<70400, 70401>>,
    <<70459, 70460>>, <<70464, 70464>>, <<70502, 70508>>, <<70512, 70516>>, <<70712, 70719>>,
    <<70722, 70724>>, <<70726, 70726>>, <<70750, 70750>>, <<70835, 70840>>, <<70842, 70842>>,
    <<70847, 70848>>, <<70850, 70851>>, <<71090, 71093>>, <<71100, 71101>>, <<71103, 71104>>,
    <<71132, 71133>>, <<71219, 71226>>, <<71229, 71229>>, <<71231, 71232>>, <<71339, 71339>>,
    <<71341, 71341>>, <<71344, 71349>>, <<71351, 71351>>, <<71453, 71455>>, <<71458, 71461>>,
    <<71463, 71467>>, <<71727, 71735>>, <<71737, 71738>>, <<71995, 71996>>, <<71998, 71998>>,
    <<72003, 72003>>, <<72148, 72151>>, <<72154, 72155>>, <<72160, 72160>>, <<72193, 72202>>,
    <<72243, 72248>>, <<72251, 72254>>, <<72263, 72263>>, <<72273, 72278>>, <<72281, 72283>>,
    <<72330, 72342>>, <<72344, 72345>>, <<72752, 72758>>, <<72760, 72765>>, <<72767, 72767>>,
    <<72850, 72871>>, <<72874, 72880>>, <<72882, 72883>>, <<72885, 72886>>, <<73009, 73014>>,
    <<73018, 73018>>, <<73020, 73021>>, <<73023, 73029>>, <<73031, 73031>>, <<73104, 73105>>,
    <<73109, 73109>>, <<73111, 73111>>, <<73459, 73460>>, <<78896, 78904>>, <<92912, 92916>>,
    <<92976, 92982>>, <<92992, 92995>>, <<94031, 94031>>, <<94095, 94111>>, <<94176, 94177>>,
    <<94179, 94180>>, <<110576, 110579>>, <<110581, 110587>>, <<110589, 110590>>,
    <<113821, 113822>>, <<113824, 113827>>, <<118528, 118573>>, <<118576, 118598>>,
    <<119143, 119145>>, <<119155, 119170>>, <<119173, 119179>>, <<119210, 119213>>,
    <<119362, 119364>>, <<121344, 121398>>, <<121403, 121452>>, <<121461, 121461>>,
    <<121476, 121476>>, <<121499, 121503>>, <<121505, 121519>>, <<122880, 122886>>,
    <<122888, 122904>>, <<122907, 122913>>, <<122915, 122916>>, <<122918, 122922>>,
    <<123184, 123197>>, <<123566, 123566>>, <<123628, 123631>>, <<125136, 125142>>,
    <<125252, 125259>>, <<127995, 127999>>, <<917505, 917505>>, <<917536, 917631>>,
    <<917760, 917999>> }
\* The characters the final-sigma rule takes for letters (Cased and not
\* Case_Ignorable), as <<first, last>>.
CasedLetters == {
    <<65, 90>>, <<97, 122>>, <<170, 170>>, <<181, 181>>, <<186, 186>>, <<192, 214>>,
    <<216, 246>>, <<248, 442>>, <<444, 447>>, <<452, 659>>, <<661, 687>>, <<880, 883>>,
    <<886, 887>>, <<891, 893>>, <<895, 895>>, <<902, 902>>, <<904, 906>>, <<908, 908>>,
    <<910, 929>>, <<931, 1013>>, <<1015, 1153>>, <<1162, 1327>>, <<1329, 1366>>,
    <<1376, 1416>>, <<4256, 4293>>, <<4295, 4295>>, <<4301, 4301>>, <<4304, 4346>>,
    <<4349, 4351>>, <<5024, 5109>>, <<5112, 5117>>, <<7296, 7304>>, <<7312, 7354>>,
    <<7357, 7359>>, <<7424, 7467>>, <<7531, 7543>>, <<7545, 7578>>, <<7680, 7957>>,
    <<7960, 7965>>, <<7968, 8005>>, <<8008, 8013>>, <<8016, 8023>>, <<8025, 8025>>,
    <<8027, 8027>>, <<8029, 8029>>, <<8031, 8061>>, <<8064, 8116>>, <<8118, 8124>>,
    <<8126, 8126>>, <<8130, 8132>>, <<8134, 8140>>, <<8144, 8147>>, <<8150, 8155>>,
    <<8160, 8172>>, <<8178, 8180>>, <<8182, 8188>>, <<8450, 8450>>, <<8455, 8455>>,
    <<8458, 8467>>, <<8469, 8469>>, <<8473, 8477>>, <<8484, 8484>>, <<8486, 8486>>,
    <<8488, 8488>>, <<8490, 8493>>, <<8495, 8500>>, <<8505, 8505>>, <<8508, 8511>>,
    <<8517, 8521>>, <<8526, 8526>>, <<8544, 8575>>, <<8579, 8580>>, <<9398, 9449>>,
    <<11264, 11387>>, <<11390, 11492>>, <<11499, 11502>>, <<11506, 11507>>, <<11520, 11557>>,
    <<11559, 11559>>, <<11565, 11565>>, <<42560, 42605>>, <<42624, 42651>>, <<42786, 42863>>,
    <<42865, 42887>>, <<42891, 42894>>, <<42896, 42954>>, <<42960, 42961>>, <<42963, 42963>>,
    <<42965, 42969>>, <<42997, 42998>>, <<43002, 43002>>, <<43824, 43866>>, <<43872, 43880>>,
    <<43888, 43967>>, <<64256, 64262>>, <<64275, 64279>>, <<65313, 65338>>, <<65345, 65370>>,
    <<66560, 66639>>, <<66736, 66771>>, <<66776, 66811>>, <<66928, 66938>>, <<66940, 66954>>,
    <<66956, 66962>>, <<66964, 66965>>, <<66967, 66977>>, <<66979, 66993>>, <<66995, 67001>>,
    <<67003, 67004>>, <<68736, 68786>>, <<68800, 68850>>, <<71840, 71903>>, <<93760, 93823>>,
    <<119808, 119892>>, <<119894, 119964>>, <<119966, 119967>>, <<119970, 119970>>,
    <<119973, 119974>>, <<119977, 119980>>, <<119982, 119993>>, <<119995, 119995>>,
    <<119997, 120003>>, <<120005, 120069>>, <<120071, 120074>>, <<120077, 120084>>,
    <<120086, 120092>>, <<120094, 120121>>, <<120123, 120126>>, <<120128, 120132>>,
    <<120134, 120134>>, <<120138, 120144>>, <<120146, 120485>>, <<120488, 120512>>,
    <<120514, 120538>>, <<120540, 120570>>, <<120572, 120596>>, <<120598, 120628>>,
    <<120630, 120654>>, <<120656, 120686>>, <<120688, 120712>>, <<120714, 120744>>,
    <<120746, 120770>>, <<120772, 120779>>, <<122624, 122633>>, <<122635, 122654>>,
    <<125184, 125251>>, <<127280, 127305>>, <<127312, 127337>>, <<127344, 127369>> }
InRanges(c, ranges) == \E r \in ranges : r[1] <= c /\ c <= r[2]
\* The lower case of a character that has a one-character lower case.
LowerOf(c) ==
    LET runs == {r \in LowerRuns : r[1] <= c /\ c <= r[2] /\ (c - r[1]) % r[3] = 0}
    IN  IF runs = {} THEN c ELSE c + (CHOOSE r \in runs : TRUE)[4]
\* Capital sigma at s[i] ends a word: the nearest character before it that is
\* not skipped is a letter, and the nearest after it, if any, is none.
FinalSigma(s, i) ==
    LET before == {j \in 1..(i - 1) : ~InRanges(s[j], CaseIgnorable)}
        after == {j \in (i + 1)..Len(s) : ~InRanges(s[j], CaseIgnorable)}
    IN  /\ before # {}
        /\ InRanges(s[CHOOSE j \in before : \A k \in before : k <= j], CasedLetters)
        /\ \/ after = {}
           \/ ~InRanges(s[CHOOSE j \in after : \A k \in after : j <= k], CasedLetters)
\* The lower case of s[i]: capital sigma (U+03A3) gives final sigma (U+03C2) at
\* the end of a word and small sigma (U+03C3) elsewhere, capital I with dot
\* above (U+0130) gives two characters, every other character one.
LowerAt(s, i) ==
    IF s[i] = 931 THEN <<IF FinalSigma(s, i) THEN 962 ELSE 963>>
    ELSE IF s[i] = 304 THEN <<105, 775>>
    ELSE <<LowerOf(s[i])>>
RECURSIVE LowerFrom(_, _)
LowerFrom(s, i) == IF i > Len(s) THEN <<>> ELSE LowerAt(s, i) \o LowerFrom(s, i + 1)
Lower(s) == LowerFrom(s, 1)
\* s.split('-')[0]
BeforeDash(s) ==
    IF \E i \in DOMAIN s : s[i] = 45
    THEN SubSeq(s, 1, (CHOOSE i \in DOMAIN s : s[i] = 45 /\ \A j \in 1..(i - 1) : s[j] # 45) - 1)
    ELSE s
\* `a in b` for strings
IsSubstring(a, b) == \E i \in 0..(Len(b) - Len(a)) : SubSeq(b, i + 1, i + Len(a)) = a
\* b.startswith(a)
StartsWith(b, a) == Len(a) <= Len(b) /\ SubSeq(b, 1, Len(a)) = a

VoiceRecord(n, sn, g, l) == [Name |-> n, ShortName |-> sn, Gender |-> g, Locale |-> l]
\* The records a catalog is made of, in the order the backend lists them.
AllVoices == <<
    VoiceRecord(<<66, 97, 115, 104, 107, 97, 114>>, "ben-IN-BashkarNeural",  \* "Bashkar"
                <<77, 97, 108, 101>>,  \* "Male"
                <<98, 101, 110, 45, 73, 78>>),  \* "ben-IN"
    VoiceRecord(<<65, 114, 105, 97>>, "en-US-AriaNeural",  \* "Aria"
                <<70, 101, 109, 97, 108, 101>>,  \* "Female"
                <<101, 110, 45, 85, 83>>),  \* "en-US"
    VoiceRecord(<<82, 121, 97, 110>>, "en-GB-RyanNeural",  \* "Ryan"
                <<77, 97, 108, 101>>,  \* "Male"
                <<101, 110, 45, 71, 66>>),  \* "en-GB"
    VoiceRecord(<<70, 114, 97, 110, 99, 105, 115, 99, 97>>, "pt-BR-FranciscaNeural",
                <<70, 101, 109, 97, 108, 101>>,  \* "Female"
                <<112, 116, 45, 66, 82>>) >>  \* "pt-BR"
\* Every catalog that lists some of these records, in that order.
Catalogs ==
    {SelectSeq(AllVoices, LAMBDA v : v.ShortName \in keep) :
        keep \in SUBSET {AllVoices[i].ShortName : i \in DOMAIN AllVoices}}

\* The body of list_available_voices once find_all() has returned `voices`.
ApplyFilters(voices, language, gender, locale_str) ==
    LET byLanguage ==
            IF Falsy(language) THEN voices
            ELSE SelectSeq(voices, LAMBDA v : IsSubstring(Lower(language.s), BeforeDash(Lower(v.Locale))))
        byGender ==
            IF Falsy(gender) THEN byLanguage
            ELSE SelectSeq(byLanguage, LAMBDA v : Lower(gender.s) = Lower(v.Gender))
    IN  IF Falsy(locale_str) THEN byGender
        ELSE SelectSeq(byGender, LAMBDA v : IsSubstring(Lower(locale_str.s), Lower(v.Locale)))

\* list_available_voices: `fetch` is how VoicesManager.create() and find_all()
\* end, "ok" with the catalog or "raises"; an exception gives the empty list.
list_available_voices(catalog, fetch, language, gender, locale_str) ==
    IF fetch = "raises" THEN <<>>
    ELSE ApplyFilters(catalog, language, gender, locale_str)

\* ------------------------------------------------------------- orchestrator
PdfPaths == {"a.pdf", "b.pdf"}

\* An exception that escapes a collaborator instead of being mapped by it
\* (raised outside its try blocks or while one of its handlers runs, or by a
\* substituted collaborator).  "none": the collaborator behaves as modelled.
Faults == {"none", "extract_FileNotFoundError", "extract_Exception", "synth_Exception"}
\* str(e) of such an exception
ExcText == "boom"

Msg(t, a) == [template |-> t, args |-> a]
NoMsg == Msg("none", <<>>)
\* the message embeds the string x
Contains(m, x) == \E i \in DOMAIN m.args : m.args[i] = x

Outcome(st, ok, m) == [status |-> st, success |-> ok, message |-> m]
NoOutcome == Outcome("none", FALSE, NoMsg)

\* extract_text_from_pdf(pdf_file_path) as the orchestrator sees it
CallExtractor(f, fault) ==
    CASE fault = "extract_FileNotFoundError" -> ExtractResult("FileNotFoundError", PyNone, "none")
      [] fault = "extract_Exception"         -> ExtractResult("Exception", PyNone, "none")
      [] OTHER                               -> extract_text_from_pdf(f)

\* Step 1 of convert_pdf_to_speech: the outcome it returns, or status "none"
\* when the text goes on to step 2.
\* Variant for sensitivity runs: step 1 has no except clause.
ExtractionStepNoCatch(r, pdf_file_path) ==
    IF r.raised # "none" THEN Outcome("raised", FALSE, NoMsg)
    ELSE IF Falsy(r.ret)
    THEN Outcome("returned", FALSE, Msg("no_text_extracted", <<pdf_file_path>>))
    ELSE NoOutcome
\* Variant for sensitivity runs: the no-text message leaves out the path.
ExtractionStepNoPath(r, pdf_file_path) ==
    IF r.raised = "FileNotFoundError"
    THEN Outcome("returned", FALSE, Msg("pdf_not_found", <<pdf_file_path>>))
    ELSE IF r.raised # "none"
    THEN Outcome("returned", FALSE, Msg("unexpected_extraction_error", <<ExcText>>))
    ELSE IF Falsy(r.ret)
    THEN Outcome("returned", FALSE, Msg("no_text_extracted", <<>>))
    ELSE NoOutcome
\* Variant for sensitivity runs: `if not extracted_text` is missing.
ExtractionStepNoEmptyCheck(r, pdf_file_path) ==
    IF r.raised = "FileNotFoundError"
    THEN Outcome("returned", FALSE, Msg("pdf_not_found", <<pdf_file_path>>))
    ELSE IF r.raised # "none"
    THEN Outcome("returned", FALSE, Msg("unexpected_extraction_error", <<ExcText>>))
    ELSE NoOutcome
ExtractionStep(r, pdf_file_path) ==
    IF r.raised = "FileNotFoundError"
    THEN Outcome("returned", FALSE, Msg("pdf_not_found", <<pdf_file_path>>))
    ELSE IF r.raised # "none"
    THEN Outcome("returned", FALSE, Msg("unexpected_extraction_error", <<ExcText>>))
    ELSE IF Falsy(r.ret)
    THEN Outcome("returned", FALSE, Msg("no_text_extracted", <<pdf_file_path>>))
    ELSE NoOutcome

\* Step 2 of convert_pdf_to_speech once synthesize_speech has returned
\* `success` or raised; `raised` is "none", "Exception" or "CancelledError".
\* `except Exception` does not catch CancelledError: the call ends by raising
\* it and returns no outcome.
\* Variant for sensitivity runs: the value of `success` is not tested.
SynthesisStepIgnoresResult(raised, success, output_audio_path) ==
    IF raised = "CancelledError" THEN Outcome("raised", FALSE, NoMsg)
    ELSE IF raised = "Exception"
    THEN Outcome("returned", FALSE, Msg("unexpected_synthesis_error", <<ExcText>>))
    ELSE Outcome("returned", TRUE, Msg("converted", <<output_audio_path>>))
\* Variant for sensitivity runs: the failure message carries detail.
SynthesisStepEchoesLog(raised, success, output_audio_path) ==
    IF raised = "CancelledError" THEN Outcome("raised", FALSE, NoMsg)
    ELSE IF raised = "Exception"
    THEN Outcome("returned", FALSE, Msg("unexpected_synthesis_error", <<ExcText>>))
    ELSE IF success
    THEN Outcome("returned", TRUE, Msg("converted", <<output_audio_path>>))
    ELSE Outcome("returned", FALSE, Msg("synthesis_failed", <<"details">>))
SynthesisStep(raised, success, output_audio_path) ==
    IF raised = "CancelledError" THEN Outcome("raised", FALSE, NoMsg)
    ELSE IF raised = "Exception"
    THEN Outcome("returned", FALSE, Msg("unexpected_synthesis_error", <<ExcText>>))
    ELSE IF success
    THEN Outcome("returned", TRUE, Msg("converted", <<output_audio_path>>))
    ELSE Outcome("returned", FALSE, Msg("synthesis_failed", <<>>))

\* ------------------------------------------------------------------- window
\* One entry of available_languages_map: the name shown, the code, its characters.
Language(d, c, cs) == [display |-> d, code |-> c, chars |-> cs]
available_languages_map == <<
    Language("English (US)", "en-US", <<101, 110, 45, 85, 83>>),  \* "en-US"
    Language("Portuguese (Brazil)", "pt-BR", <<112, 116, 45, 66, 82>>) >>  \* "pt-BR"
\* What edge_tts.list_voices() can return.
GuiCatalogs == {AllVoices, <<>>}

\* f"{v['Name']} ({v['Gender']})": the text, so that two voices whose names and
\* genders differ can have one display name
DisplayName(v) == v.Name \o <<32, 40>> \o v.Gender \o <<41>>  \* " ("
\* The fixed texts of the voice menu: "Loading..." and "No voices available"
LoadingText == <<76, 111, 97, 100, 105, 110, 103, 46, 46, 46>>  \* "Loading..."
NoVoicesText ==
    <<78, 111, 32, 118, 111, 105, 99, 101, 115, 32, 97, 118, 97, 105, 108, 97, 98, 108, 101>>
\* language_specific_voices
LanguageSpecificVoices(all_voices, language_code) ==
    LET lang_prefix == Lower(BeforeDash(language_code))
    IN  SelectSeq(all_voices, LAMBDA v : StartsWith(Lower(v.Locale), lang_prefix))
\* The dict built from language_specific_voices: one entry for each display
\* name, in the order the names first come, each with the short name of the
\* last voice of that name.
VoicesMap(found) ==
    LET first == SelectSeq([i \in DOMAIN found |-> i],
                           LAMBDA i : \A j \in 1..(i - 1) :
                                         DisplayName(found[j]) # DisplayName(found[i]))
        Last(i) == CHOOSE j \in DOMAIN found :
                      /\ DisplayName(found[j]) = DisplayName(found[i])
                      /\ \A k \in (j + 1)..Len(found) :
                            DisplayName(found[k]) # DisplayName(found[i])
    IN  [n \in DOMAIN first |->
            [key |-> DisplayName(found[first[n]]), value |-> found[Last(first[n])].ShortName]]
\* list(d.keys())
Keys(m) == [i \in DOMAIN m |-> m[i].key]
HasKey(m, k) == \E i \in DOMAIN m : m[i].key = k
\* d.get(k)
MapGet(m, k) ==
    IF HasKey(m, k)
    THEN [none |-> FALSE, s |-> m[CHOOSE i \in DOMAIN m : m[i].key = k].value]
    ELSE [none |-> TRUE, s |-> ""]

\* Paths: the PDF chosen and the audio file written next to it.
NoPath == [dir |-> "", stem |-> "", suffix |-> "", ext |-> ""]
GuiPdfPaths == {[dir |-> "docs", stem |-> "a", suffix |-> "", ext |-> ".pdf"]}
OutputAudioPath(pdf_path) == [pdf_path EXCEPT !.suffix = "_speech", !.ext = ".mp3"]

\* The status line: which text it is, the path and the words put into it.
Status(k, p, t) == [kind |-> k, path |-> p, text |-> t]
NoStatus == Status("", NoPath, "")
\* A call queued with root.after(0, ...).
Callback(f, names, msg) == [fn |-> f, names |-> names, msg |-> msg]
SetStatus(msg) == Callback("set_status", <<>>, msg)
UpdateMenu(names) == Callback("update_voice_menu", names, NoStatus)
Config(f) == Callback(f, <<>>, NoStatus)

\* The widgets and Tk variables as one record.
Widgets(pdf, lang, voice, status, btn, lmenu, vmenu, items) ==
    [selected_pdf_path |-> pdf, selected_language_display |-> lang,
     selected_voice |-> voice, status_message |-> status, btn_convert |-> btn,
     language_options_menu |-> lmenu, voice_options_menu |-> vmenu, voice_menu |-> items]

\* _update_voice_menu
UpdateVoiceMenu(w, voice_display_names) ==
    IF voice_display_names # <<>>
    THEN [w EXCEPT !.voice_menu = voice_display_names,
                   !.selected_voice = voice_display_names[1],
                   !.voice_options_menu = "normal",
                   !.btn_convert = IF w.selected_pdf_path # NoPath THEN "normal" ELSE @]
    ELSE [w EXCEPT !.voice_menu = <<>>,
                   !.selected_voice = NoVoicesText,
                   !.voice_options_menu = "disabled",
                   !.btn_convert = "disabled"]

\* What a queued call does to the widgets when the main loop runs it.
RunQueued(cb, w, voices_map) ==
    CASE cb.fn = "update_voice_menu" -> UpdateVoiceMenu(w, cb.names)
      [] cb.fn = "set_status" -> [w EXCEPT !.status_message = cb.msg]
      [] cb.fn = "btn_normal" -> [w EXCEPT !.btn_convert = "normal"]
      [] cb.fn = "btn_disabled" -> [w EXCEPT !.btn_convert = "disabled"]
      [] cb.fn = "language_normal" -> [w EXCEPT !.language_options_menu = "normal"]
      [] cb.fn = "voice_by_map" ->
            [w EXCEPT !.voice_options_menu = IF voices_map # <<>> THEN "normal" ELSE "disabled"]
      [] cb.fn \in {"showinfo", "showerror"} -> w

\* The loader thread of _load_voices_for_language: its locals and its position,
\* "fetch", "assign", "found", "menu", "status", "empty", "empty_status",
\* "except", "except_menu", "finally" or "done".
Loader(lang) ==
    [language_code |-> lang.chars, code |-> lang.code, pc |-> "fetch", found |-> <<>>,
     voice_display_names |-> <<>>]
\* The root.after call the loader makes at a position before its finally
\* block, and the position it goes to.
LoaderCall(l) ==
    CASE l.pc = "menu" -> [cb |-> UpdateMenu(l.voice_display_names), next |-> "status"]
      [] l.pc = "status" ->
            [cb |-> SetStatus(Status("voices_loaded", NoPath, l.code)), next |-> "finally"]
      [] l.pc = "empty" -> [cb |-> UpdateMenu(<<>>), next |-> "empty_status"]
      [] l.pc = "empty_status" ->
            [cb |-> SetStatus(Status("no_voices_found", NoPath, l.code)), next |-> "finally"]
      [] l.pc = "except" ->
            [cb |-> SetStatus(Status("error_loading_voices", NoPath, ExcText)),
             next |-> "except_menu"]
      [] l.pc = "except_menu" -> [cb |-> UpdateMenu(<<>>), next |-> "finally"]
\* The finally block of the loader: the calls it queues.
LoaderFinallyCalls(pdf, voices_map) ==
    IF pdf # NoPath /\ voices_map # <<>> THEN <<Config("btn_normal")>> ELSE <<>>

\* The thread of _run_conversion: its arguments, its position ("announce",
\* "running", "report", "report2", "finally", "finally2", "finally3" or
\* "done") and how the call ended: it returned success or failure, it raised
\* an Exception ("raises"), or it raised a BaseException that is no Exception
\* ("cancelled": the CancelledError of a cancelled task).
Conversion(pdf_path, voice) ==
    [pdf_path |-> pdf_path, output_audio_path |-> OutputAudioPath(pdf_path), voice |-> voice,
     pc |-> "announce", result |-> "none"]
\* A conversion thread that has ended.
ConversionDone == [pdf_path |-> NoPath, output_audio_path |-> NoPath, voice |-> "",
                   pc |-> "done", result |-> "none"]
ConvResults == {"success", "failure", "raises", "cancelled"}
\* The endings that the try body or `except Exception` of _run_conversion
\* takes up; any other leaves the try statement through its finally block.
Reported == {"success", "failure", "raises"}
FailureMessage == "Conversion Failed"
\* The text that reports how the conversion ended.
FinalStatus(result, output_audio_path) ==
    CASE result = "success" -> Status("success", output_audio_path, "")
      [] result = "failure" -> Status("failed", NoPath, FailureMessage)
      [] result = "raises" -> Status("unexpected_error", NoPath, ExcText)
\* The root.after call of _run_conversion at a position of the else/except
\* branch that reports the result, and the position it goes to.
ReportCall(c) ==
    CASE c.pc = "report" ->
            [cb |-> CASE c.result = "success" -> Config("showinfo")
                      [] c.result = "failure" -> Config("showerror")
                      [] c.result = "raises" -> SetStatus(FinalStatus(c.result, c.output_audio_path)),
             next |-> "report2"]
      [] c.pc = "report2" ->
            [cb |-> IF c.result = "raises" THEN Config("showerror")
                    ELSE SetStatus(FinalStatus(c.result, c.output_audio_path)),
             next |-> "finally"]
\* Variant for sensitivity runs: the finally block never re-enables the button.
RestoreButtonNever(pdf, voices_map) == Config("btn_disabled")
\* The last call of the finally block of _run_conversion.
RestoreButton(pdf, voices_map) ==
    IF pdf # NoPath /\ voices_map # <<>> THEN Config("btn_normal") ELSE Config("btn_disabled")
\* The root.after call of the finally block of _run_conversion at a position,
\* and the position it goes to.
ConvFinallyCall(c, pdf, voices_map) ==
    CASE c.pc = "finally" -> [cb |-> Config("language_normal"), next |-> "finally2"]
      [] c.pc = "finally2" -> [cb |-> Config("voice_by_map"), next |-> "finally3"]
      [] c.pc = "finally3" -> [cb |-> RestoreButton(pdf, voices_map), next |-> "done"]

\* ------------------------------------------------------------------- state
VARIABLES
    xfile,      \* extractor, called directly: what lay at the path given
    xres,       \* extractor, called directly: the result of the call
    spc,        \* synthesize_speech: "idle", "saving" (awaiting save), "returned",
                \* "raised" (an Exception), "cancelled" (CancelledError)
    sargs,      \* synthesize_speech: its arguments
    sret,       \* synthesize_speech: the value returned
    slog,       \* synthesize_speech: the last line it printed
    backend,    \* the save call: "idle", "pending", or how it ended
    files,      \* what lies at each output path: "absent", "partial", "complete"
    pc,         \* convert_pdf_to_speech: "idle", "awaiting" (synthesize_speech), "done"
    req,        \* convert_pdf_to_speech: its arguments
    input,      \* what lay at pdf_file_path, and the fault of this call
    extracted,  \* convert_pdf_to_speech: extracted_text
    outcome,    \* convert_pdf_to_speech: what it returned
    files0,     \* the output paths as they were when the call started
    trace,      \* the calls made since the call started, in order
    vargs,      \* list_available_voices: the catalog, how the fetch ends, the filters
    vres,       \* list_available_voices: whether it was called and what it returned
    selected_pdf_path,          \* window: the PDF chosen, NoPath before any
    selected_language_display,  \* window: the language shown as selected
    selected_voice,             \* window: the voice shown as selected, or a label
    status_message,             \* window: the status line
    btn_convert,                \* window: state of the Convert button
    language_options_menu,      \* window: state of the language menu
    voice_options_menu,         \* window: state of the voice menu
    voice_menu,                 \* window: the entries of the voice menu
    loaded_voices_map,          \* display name -> short name, as a list of pairs
    afterq,                     \* calls queued with root.after(0, ...), oldest first
    loaders,                    \* the voice-loading threads started so far
    convs                       \* the conversion threads started so far

extVars == <<xfile, xres>>
synVars == <<spc, sargs, sret, slog, backend, files>>
ctlVars == <<pc, req, input, extracted, outcome>>
voiVars == <<vargs, vres>>
widgetVars == <<selected_pdf_path, selected_language_display, selected_voice, status_message,
                btn_convert, language_options_menu, voice_options_menu, voice_menu>>
guiVars == <<widgetVars, loaded_voices_map, afterq, loaders, convs>>
otherVars == <<voiVars, guiVars>>
coreVars == <<extVars, synVars, ctlVars, files0, trace, voiVars>>
vars == <<xfile, xres, spc, sargs, sret, slog, backend, files, pc, req, input,
          extracted, outcome, files0, trace, vargs, vres, selected_pdf_path,
          selected_language_display, selected_voice, status_message, btn_convert,
          language_options_menu, voice_options_menu, voice_menu, loaded_voices_map,
          afterq, loaders, convs>>

NoFile == PdfFile("none", "plain", <<>>)
NoResult == ExtractResult("none", PyNone, "not_called")
NoArgs == [text |-> <<>>, output_filename |-> "none", voice |-> "none"]
NoReq == [pdf_file_path |-> "none", output_audio_path |-> "none", voice |-> "none"]
NoInput == [class |-> "none", fault |-> "none"]
NoVoiceArgs == [catalog |-> <<>>, fetch |-> "ok", language |-> PyNone, gender |-> PyNone,
                locale_str |-> PyNone]
NoVoices == [called |-> FALSE, voices |-> <<>>]

ExtInit ==
    /\ xfile = NoFile
    /\ xres = NoResult

SynInit ==
    /\ spc = "idle"
    /\ sargs = NoArgs
    /\ sret = FALSE
    /\ slog = "none"
    /\ backend = "idle"
    /\ files = [o \in OutPaths |-> "absent"]

CtlInit ==
    /\ pc = "idle"
    /\ req = NoReq
    /\ input = NoInput
    /\ extracted = PyNone
    /\ outcome = NoOutcome

VoiInit ==
    /\ vargs = NoVoiceArgs
    /\ vres = NoVoices

\* The window after __init__: _setup_ui, then _on_language_selected for the
\* first language, which starts the first loader thread.
GuiInit ==
    /\ selected_pdf_path = NoPath
    /\ selected_language_display = available_languages_map[1].display
    /\ selected_voice = LoadingText
    /\ status_message = Status("loading_voices", NoPath, available_languages_map[1].display)
    /\ btn_convert = "disabled"
    /\ language_options_menu = "normal"
    /\ voice_options_menu = "disabled"
    /\ voice_menu = <<>>
    /\ loaded_voices_map = <<>>
    /\ afterq = <<>>
    /\ loaders = <<Loader(available_languages_map[1])>>
    /\ convs = <<>>

Init ==
    /\ ExtInit
    /\ SynInit
    /\ CtlInit
    /\ VoiInit
    /\ GuiInit
    /\ files0 = files
    /\ trace = <<>>

\* ------------------------------------------------- the extractor on its own
\* extract_text_from_pdf(path) is a function of what lies at the path: the
\* file is drawn at the start and the call is applied to it.
ExtractInit ==
    /\ xfile \in PdfFiles
    /\ xres = NoResult
    /\ SynInit
    /\ CtlInit
    /\ VoiInit
    /\ GuiInit
    /\ files0 = files
    /\ trace = <<>>

ExtractCall ==
    /\ xres = NoResult
    /\ xres' = extract_text_from_pdf(xfile)
    /\ UNCHANGED <<otherVars, xfile, synVars, ctlVars, files0, trace>>

ExtNext == ExtractCall

ExtractSpec == ExtractInit /\ [][ExtNext]_vars

\* ------------------------------------------------ the voice query on its own
LanguageArgs == {PyNone, PyStr(<<>>), PyStr(<<101, 110>>), PyStr(<<69, 78>>), PyStr(<<112, 116>>)}
GenderArgs == {PyNone, PyStr(<<102, 101, 109, 97, 108, 101>>)}  \* "female"
LocaleArgs == {PyNone, PyStr(<<101, 110, 45, 85, 83>>), PyStr(<<66, 82>>)}  \* "en-US", "BR"

\* list_available_voices is a function of the catalog and its filters: both
\* are drawn at the start and the call is applied to them.
VoiceInit ==
    /\ vargs \in [catalog : Catalogs, fetch : {"ok", "raises"}, language : LanguageArgs,
                  gender : GenderArgs, locale_str : LocaleArgs]
    /\ vres = NoVoices
    /\ GuiInit
    /\ ExtInit
    /\ SynInit
    /\ CtlInit
    /\ files0 = files
    /\ trace = <<>>

ListVoicesCall ==
    /\ ~vres.called
    /\ vres' = [called |-> TRUE,
                voices |-> list_available_voices(vargs.catalog, vargs.fetch, vargs.language,
                                                 vargs.gender, vargs.locale_str)]
    /\ UNCHANGED <<vargs, guiVars, extVars, synVars, ctlVars, files0, trace>>

VoiceNext == ListVoicesCall

VoiceSpec == VoiceInit /\ [][VoiceNext]_vars

\* ----------------------------------------------------- the synthesizer's steps
\* synthesize_speech(text, output_filename, voice) entered: it runs to the
\* await of save, or returns at once.
EnterSynth(text, output_filename, voice, ctor, before) ==
    LET b == SynthBegin(text, ctor)
    IN  /\ sargs' = [text |-> text, output_filename |-> output_filename, voice |-> voice]
        /\ spc' = b.spc
        /\ sret' = b.sret
        /\ slog' = b.slog
        /\ backend' = b.backend
        /\ trace' = before \o <<"synthesize">> \o b.events

\* The backend ends the pending save.
BackendFinish(b, after) ==
    /\ spc = "saving"
    /\ backend = "pending"
    /\ b \in SaveOutcomes(sargs.voice)
    /\ after \in FileAfterSave(b, files[sargs.output_filename])
    /\ backend' = b
    /\ files' = [files EXCEPT ![sargs.output_filename] = after]
    /\ UNCHANGED <<otherVars, extVars, ctlVars, spc, sargs, sret, slog, files0, trace>>

\* synthesize_speech resumes after the await and returns, or is left by the
\* CancelledError thrown into the await.
SynthResume ==
    /\ spc = "saving"
    /\ backend \notin {"idle", "pending"}
    /\ spc' = SynthEnd(backend, slog).spc
    /\ sret' = SynthEnd(backend, slog).sret
    /\ slog' = SynthEnd(backend, slog).slog
    /\ UNCHANGED <<otherVars, extVars, ctlVars, sargs, backend, files, files0, trace>>

\* ----------------------------------------------- the synthesizer on its own
SynthCall(text, output_filename, voice, ctor) ==
    /\ pc = "idle"
    /\ spc = "idle"
    /\ ctor \in CtorOutcomes(voice)
    /\ EnterSynth(text, output_filename, voice, ctor, <<>>)
    /\ files0' = files
    /\ UNCHANGED <<otherVars, extVars, ctlVars, files>>

\* The caller takes the value returned, or the CancelledError.
SynthReturn ==
    /\ pc = "idle"
    /\ spc \in {"returned", "cancelled"}
    /\ spc' = "idle"
    /\ UNCHANGED <<otherVars, extVars, ctlVars, sargs, sret, slog, backend, files, files0, trace>>

SynthNext ==
    \/ /\ spc = "idle"
       /\ \E text \in Texts, o \in OutPaths, v \in Voices, ctor \in {"ok", "raises"} :
             SynthCall(text, o, v, ctor)
    \/ \E b \in SaveEnds,
          after \in {"absent", "partial", "complete"} : BackendFinish(b, after)
    \/ SynthResume
    \/ SynthReturn

SynthSpec == Init /\ [][SynthNext]_vars

\* ------------------------------------------------------------ the orchestrator
\* convert_pdf_to_speech(pdf_file_path, output_audio_path, voice) with f at
\* pdf_file_path: step 1, and when text was extracted the call of
\* synthesize_speech, up to the first suspension or to the return.
Convert(pdf_file_path, f, output_audio_path, voice, fault, ctor) ==
    LET r == CallExtractor(f, fault)
        st == ExtractionStep(r, pdf_file_path)
    IN  /\ pc = "idle"
        /\ spc = "idle"
        /\ ctor \in CtorOutcomes(voice)
        /\ req' = [pdf_file_path |-> pdf_file_path,
                   output_audio_path |-> output_audio_path, voice |-> voice]
        /\ input' = [class |-> FileClass(f), fault |-> fault]
        /\ files0' = files
        /\ IF st.status # "none"
           THEN /\ pc' = "done"
                /\ outcome' = st
                /\ extracted' = IF r.raised = "none" THEN r.ret ELSE PyNone
                /\ trace' = <<"extract">>
                /\ UNCHANGED <<spc, sargs, sret, slog, backend>>
           ELSE /\ pc' = "awaiting"
                /\ outcome' = NoOutcome
                /\ extracted' = r.ret
                /\ IF fault = "synth_Exception"
                   THEN /\ spc' = "raised"
                        /\ sargs' = [text |-> r.ret.s, output_filename |-> output_audio_path,
                                     voice |-> voice]
                        /\ trace' = <<"extract", "synthesize">>
                        /\ UNCHANGED <<sret, slog, backend>>
                   ELSE EnterSynth(r.ret.s, output_audio_path, voice, ctor, <<"extract">>)
        /\ UNCHANGED <<otherVars, extVars, files>>

\* What synthesize_speech raised, by where it ended.
Raised(c) ==
    CASE c = "raised"    -> "Exception"
      [] c = "cancelled" -> "CancelledError"
      [] OTHER           -> "none"

\* synthesize_speech has returned or raised: the rest of step 2.
\* Variant for sensitivity runs: a failed synthesis is tried a second time.
ConvertFinishRetryOnce ==
    /\ pc = "awaiting"
    /\ spc \in {"returned", "raised", "cancelled"}
    /\ IF spc = "returned" /\ ~sret /\ Len(trace) < 6
       THEN /\ spc' = "saving"
            /\ backend' = "pending"
            /\ trace' = trace \o <<"synthesize", "Communicate", "save">>
            /\ UNCHANGED <<pc, outcome>>
       ELSE /\ outcome' = SynthesisStep(Raised(spc), sret, req.output_audio_path)
            /\ pc' = "done"
            /\ spc' = "idle"
            /\ UNCHANGED <<backend, trace>>
    /\ UNCHANGED <<otherVars, extVars, req, input, extracted, sargs, sret, slog, files, files0>>
ConvertFinish ==
    /\ pc = "awaiting"
    /\ spc \in {"returned", "raised", "cancelled"}
    /\ outcome' = SynthesisStep(Raised(spc), sret, req.output_audio_path)
    /\ pc' = "done"
    /\ spc' = "idle"
    /\ UNCHANGED <<otherVars, extVars, req, input, extracted, sargs, sret, slog, backend, files,
                   files0, trace>>

\* The caller has the outcome or the exception; nothing of the call is kept.
Return ==
    /\ pc = "done"
    /\ pc' = "idle"
    /\ req' = NoReq
    /\ input' = NoInput
    /\ extracted' = PyNone
    /\ outcome' = NoOutcome
    /\ sargs' = NoArgs
    /\ sret' = FALSE
    /\ slog' = "none"
    /\ backend' = "idle"
    /\ files0' = files
    /\ trace' = <<>>
    /\ UNCHANGED <<otherVars, extVars, spc, files>>

Next ==
    \/ /\ pc = "idle"
       /\ \E p \in PdfPaths, f \in ShortPdfFiles, o \in OutPaths, v \in Voices,
             fault \in Faults, ctor \in {"ok", "raises"} : Convert(p, f, o, v, fault, ctor)
    \/ \E b \in SaveEnds,
          after \in {"absent", "partial", "complete"} : BackendFinish(b, after)
    \/ SynthResume
    \/ ConvertFinish
    \/ Return

Spec == Init /\ [][Next]_vars

\* The event loop resumes a coroutine whose await has ended; that the backend
\* ends the save is the proviso of the termination claim.
FairSpec ==
    /\ Spec
    /\ WF_vars(\E b \in SaveEnds,
                  after \in {"absent", "partial", "complete"} : BackendFinish(b, after))
    /\ WF_vars(SynthResume)
    /\ WF_vars(ConvertFinish)

\* ---------------------------------------------------------------- the window
\* The widgets as they are now.
W ==
    Widgets(selected_pdf_path, selected_language_display, selected_voice, status_message,
            btn_convert, language_options_menu, voice_options_menu, voice_menu)
\* The widgets as they are after the step.
SetWidgets(w) ==
    /\ selected_pdf_path' = w.selected_pdf_path
    /\ selected_language_display' = w.selected_language_display
    /\ selected_voice' = w.selected_voice
    /\ status_message' = w.status_message
    /\ btn_convert' = w.btn_convert
    /\ language_options_menu' = w.language_options_menu
    /\ voice_options_menu' = w.voice_options_menu
    /\ voice_menu' = w.voice_menu

\* The user picks a language: the menu sets its variable and calls
\* _on_language_selected, which starts a loader thread.
SelectLanguage(lang) ==
    /\ language_options_menu = "normal"
    /\ Len(loaders) < MaxLoads
    /\ SetWidgets([W EXCEPT !.selected_language_display = lang.display,
                            !.status_message = Status("loading_voices", NoPath, lang.display),
                            !.selected_voice = LoadingText,
                            !.voice_menu = <<>>,
                            !.voice_options_menu = "disabled",
                            !.btn_convert = "disabled"])
    /\ loaders' = Append(loaders, Loader(lang))
    /\ UNCHANGED <<loaded_voices_map, afterq, convs, coreVars>>

\* The user picks an entry of the voice menu.
SelectVoice(name) ==
    /\ voice_options_menu = "normal"
    /\ \E i \in DOMAIN voice_menu : voice_menu[i] = name
    /\ SetWidgets([W EXCEPT !.selected_voice = name])
    /\ UNCHANGED <<loaded_voices_map, afterq, loaders, convs, coreVars>>

\* _browse_pdf_file: file_path is what the dialog gave, NoPath when cancelled.
BrowsePdf(file_path) ==
    /\ SetWidgets(
          IF file_path # NoPath
          THEN [W EXCEPT !.selected_pdf_path = file_path,
                         !.status_message = Status("selected", file_path, ""),
                         !.btn_convert =
                             IF loaded_voices_map # <<>> /\ voice_options_menu = "normal"
                             THEN "normal" ELSE @]
          ELSE IF selected_pdf_path = NoPath
               THEN [W EXCEPT !.status_message = Status("no_pdf_selected", NoPath, ""),
                              !.btn_convert = "disabled"]
               ELSE W)
    /\ UNCHANGED <<loaded_voices_map, afterq, loaders, convs, coreVars>>

\* _start_conversion_thread, run by a click on the enabled Convert button.
ClickConvert ==
    /\ btn_convert = "normal"
    /\ Len(convs) < MaxConversions
    /\ LET voice_short_name == MapGet(loaded_voices_map, selected_voice)
       IN  IF selected_pdf_path = NoPath \/ voice_short_name.none \/ voice_short_name.s = ""
           THEN UNCHANGED <<widgetVars, convs>>
           ELSE /\ SetWidgets([W EXCEPT !.status_message = Status("starting", selected_pdf_path, ""),
                                        !.btn_convert = "disabled",
                                        !.language_options_menu = "disabled",
                                        !.voice_options_menu = "disabled"])
                /\ convs' = Append(convs, Conversion(selected_pdf_path, voice_short_name.s))
    /\ UNCHANGED <<loaded_voices_map, afterq, loaders, coreVars>>

\* The main loop runs the oldest queued call.
RunCallback ==
    /\ afterq # <<>>
    /\ SetWidgets(RunQueued(Head(afterq), W, loaded_voices_map))
    /\ afterq' = Tail(afterq)
    /\ UNCHANGED <<loaded_voices_map, loaders, convs, coreVars>>

\* Loader thread t: edge_tts.list_voices() returns all_voices or raises, and
\* the voices of the language are picked out.
LoaderFetch(t, all_voices, raised) ==
    /\ loaders[t].pc = "fetch"
    /\ LET found == LanguageSpecificVoices(all_voices, loaders[t].language_code)
       IN  loaders' = [loaders EXCEPT
               ![t].pc = IF raised THEN "except" ELSE IF found # <<>> THEN "assign" ELSE "empty",
               ![t].found = IF raised THEN <<>> ELSE found]
    /\ UNCHANGED <<widgetVars, loaded_voices_map, afterq, convs, coreVars>>

\* Loader thread t assigns self.loaded_voices_map.
LoaderAssign(t) ==
    /\ loaders[t].pc = "assign"
    /\ loaded_voices_map' = VoicesMap(loaders[t].found)
    /\ loaders' = [loaders EXCEPT ![t].pc = "found"]
    /\ UNCHANGED <<widgetVars, afterq, convs, coreVars>>

\* Loader thread t reads the names back from self.loaded_voices_map.
LoaderNames(t) ==
    /\ loaders[t].pc = "found"
    /\ loaders' = [loaders EXCEPT ![t].pc = "menu",
                                  ![t].voice_display_names = Keys(loaded_voices_map)]
    /\ UNCHANGED <<widgetVars, loaded_voices_map, afterq, convs, coreVars>>

\* Loader thread t makes the next root.after call of its branch.
LoaderAfter(t) ==
    /\ loaders[t].pc \in {"menu", "status", "empty", "empty_status", "except", "except_menu"}
    /\ LET call == LoaderCall(loaders[t])
       IN  /\ afterq' = Append(afterq, call.cb)
           /\ loaders' = [loaders EXCEPT ![t].pc = call.next]
    /\ UNCHANGED <<widgetVars, loaded_voices_map, convs, coreVars>>

\* Loader thread t runs its finally block and ends.
LoaderFinally(t) ==
    /\ loaders[t].pc = "finally"
    /\ afterq' = afterq \o LoaderFinallyCalls(selected_pdf_path, loaded_voices_map)
    /\ loaders' = [loaders EXCEPT ![t].pc = "done"]
    /\ UNCHANGED <<widgetVars, loaded_voices_map, convs, coreVars>>

\* Conversion thread t queues the "Extracting..." status and calls convert_pdf_to_speech.
ConvAnnounce(t) ==
    /\ convs[t].pc = "announce"
    /\ afterq' = Append(afterq, SetStatus(Status("extracting", convs[t].pdf_path, "")))
    /\ convs' = [convs EXCEPT ![t].pc = "running"]
    /\ UNCHANGED <<widgetVars, loaded_voices_map, loaders, coreVars>>

\* Conversion thread t: convert_pdf_to_speech returns (success or failure) or
\* raises. What `except Exception` does not catch goes straight to the
\* finally block: no status and no message box is queued for it.
ConvReturn(t, result) ==
    /\ convs[t].pc = "running"
    /\ convs' = [convs EXCEPT ![t].pc = IF result \in Reported THEN "report" ELSE "finally",
                              ![t].result = result]
    /\ UNCHANGED <<widgetVars, loaded_voices_map, afterq, loaders, coreVars>>

\* Conversion thread t makes the next root.after call that reports the result.
ConvReport(t) ==
    /\ convs[t].pc \in {"report", "report2"}
    /\ LET call == ReportCall(convs[t])
       IN  /\ afterq' = Append(afterq, call.cb)
           /\ convs' = [convs EXCEPT ![t].pc = call.next]
    /\ UNCHANGED <<widgetVars, loaded_voices_map, loaders, coreVars>>

\* Conversion thread t makes the next root.after call of its finally block,
\* and ends with the last.
ConvFinally(t) ==
    /\ convs[t].pc \in {"finally", "finally2", "finally3"}
    /\ LET call == ConvFinallyCall(convs[t], selected_pdf_path, loaded_voices_map)
       IN  /\ afterq' = Append(afterq, call.cb)
           /\ convs' = [convs EXCEPT ![t] = IF call.next = "done" THEN ConversionDone
                                            ELSE [@ EXCEPT !.pc = call.next]]
    /\ UNCHANGED <<widgetVars, loaded_voices_map, loaders, coreVars>>

\* The whole window. The two specifications after it each leave one kind of
\* thread out of it.
GuiNext ==
    \/ \E i \in DOMAIN available_languages_map : SelectLanguage(available_languages_map[i])
    \/ \E i \in DOMAIN voice_menu : SelectVoice(voice_menu[i])
    \/ \E file_path \in GuiPdfPaths \cup {NoPath} : BrowsePdf(file_path)
    \/ ClickConvert
    \/ RunCallback
    \/ \E t \in DOMAIN loaders : \E all_voices \in GuiCatalogs, raised \in BOOLEAN :
            LoaderFetch(t, all_voices, raised)
    \/ \E t \in DOMAIN loaders : LoaderAssign(t)
    \/ \E t \in DOMAIN loaders : LoaderNames(t)
    \/ \E t \in DOMAIN loaders : LoaderAfter(t)
    \/ \E t \in DOMAIN loaders : LoaderFinally(t)
    \/ \E t \in DOMAIN convs : ConvAnnounce(t)
    \/ \E t \in DOMAIN convs : \E result \in ConvResults : ConvReturn(t, result)
    \/ \E t \in DOMAIN convs : ConvReport(t)
    \/ \E t \in DOMAIN convs : ConvFinally(t)

GuiSpec == Init /\ [][GuiNext]_vars

\* The window while no conversion is started: every step of the window but
\* the click on Convert and the steps of the conversion threads.
LoadNext ==
    \/ \E i \in DOMAIN available_languages_map : SelectLanguage(available_languages_map[i])
    \/ \E i \in DOMAIN voice_menu : SelectVoice(voice_menu[i])
    \/ \E file_path \in GuiPdfPaths \cup {NoPath} : BrowsePdf(file_path)
    \/ RunCallback
    \/ \E t \in DOMAIN loaders : \E all_voices \in GuiCatalogs, raised \in BOOLEAN :
            LoaderFetch(t, all_voices, raised)
    \/ \E t \in DOMAIN loaders : LoaderAssign(t)
    \/ \E t \in DOMAIN loaders : LoaderNames(t)
    \/ \E t \in DOMAIN loaders : LoaderAfter(t)
    \/ \E t \in DOMAIN loaders : LoaderFinally(t)

LoadSpec == Init /\ [][LoadNext]_vars

\* The window while the user leaves the language as it is: every step of the
\* window but a new choice of language, so that the loader thread started by
\* __init__ is the only one.
SameLanguageNext ==
    \/ \E i \in DOMAIN voice_menu : SelectVoice(voice_menu[i])
    \/ \E file_path \in GuiPdfPaths \cup {NoPath} : BrowsePdf(file_path)
    \/ ClickConvert
    \/ RunCallback
    \/ \E t \in DOMAIN loaders : \E all_voices \in GuiCatalogs, raised \in BOOLEAN :
            LoaderFetch(t, all_voices, raised)
    \/ \E t \in DOMAIN loaders : LoaderAssign(t)
    \/ \E t \in DOMAIN loaders : LoaderNames(t)
    \/ \E t \in DOMAIN loaders : LoaderAfter(t)
    \/ \E t \in DOMAIN loaders : LoaderFinally(t)
    \/ \E t \in DOMAIN convs : ConvAnnounce(t)
    \/ \E t \in DOMAIN convs : \E result \in ConvResults : ConvReturn(t, result)
    \/ \E t \in DOMAIN convs : ConvReport(t)
    \/ \E t \in DOMAIN convs : ConvFinally(t)

SameLanguageSpec == Init /\ [][SameLanguageNext]_vars

\* The main loop keeps running queued calls, and a conversion thread whose
\* call has ended keeps running. Nothing is assumed of the loader, nor that
\* the conversion call ends.
FairSameLanguageSpec ==
    /\ SameLanguageSpec
    /\ WF_vars(RunCallback)
    /\ WF_vars(\E t \in DOMAIN convs : ConvReport(t))
    /\ WF_vars(\E t \in DOMAIN convs : ConvFinally(t))

\* =================================================================== claims
Count(e, t) == Cardinality({i \in DOMAIN t : t[i] = e})
Called(e) == Count(e, trace) > 0
\* the extractor of this call behaved as extract_text_from_pdf does
ExtractorAsWritten == input.fault \notin {"extract_FileNotFoundError", "extract_Exception"}
WhitespaceOnly(t) == \A i \in DOMAIN t : t[i] \in Whitespace

\* C1: a conversion of a PDF path that names no file returns success=false
\* with a message that contains the path; the synthesizer and the backend
\* are never called and the output paths are as they were.
C1_MissingPdfFails ==
    (pc # "idle" /\ input.class = "NotFound" /\ ExtractorAsWritten)
        => /\ pc = "done"
           /\ outcome.status = "returned"
           /\ ~outcome.success
           /\ Contains(outcome.message, req.pdf_file_path)
           /\ trace = <<"extract">>
           /\ files = files0

C1_Witness ==
    /\ pc = "done"
    /\ input.class = "NotFound"
    /\ input.fault = "none"
    /\ files[req.output_audio_path] = "absent"
    /\ ~outcome.success

\* C2: a conversion returns success=true exactly when the extractor returned
\* non-empty text and synthesize_speech returned True; then the message
\* names output_audio_path and the audio lies complete at output_audio_path.
C2_SuccessIff ==
    pc = "done"
        => /\ outcome.success <=> (~Falsy(extracted) /\ Called("synthesize") /\ sret)
           /\ outcome.success
                => /\ outcome.message.template = "converted"
                   /\ Contains(outcome.message, req.output_audio_path)
                   /\ files[req.output_audio_path] = "complete"

C2_Witness ==
    /\ pc = "done"
    /\ outcome.success
    /\ files0[req.output_audio_path] = "absent"
    /\ files[req.output_audio_path] = "complete"

\* The failure kinds a message template names in its words.
KindsNamed(template) ==
    CASE template = "pdf_not_found"               -> {"NotFound"}
      [] template = "no_text_extracted"           -> {"Empty"}
      [] template = "unexpected_extraction_error" -> {"Unknown"}
      [] OTHER                                    -> {}

FailureKinds == {"NotFound", "Encrypted", "Corrupted", "Empty", "Unknown"}

\* C3 (as claimed): for every extraction failure kind the conversion ends at
\* once with success=false and a message that names the failure kind and
\* the PDF path.
C3_MessageNamesKind ==
    (pc = "done" /\ input.fault = "none" /\ input.class \in FailureKinds)
        => /\ outcome.status = "returned"
           /\ ~outcome.success
           /\ trace = <<"extract">>
           /\ Contains(outcome.message, req.pdf_file_path)
           /\ input.class \in KindsNamed(outcome.message.template)

\* C4: synthesize_speech, the backend and every write to an output path come
\* only after the extractor has returned non-empty text.
C4_SynthesisAfterExtraction ==
    /\ \A i \in DOMAIN trace :
          trace[i] \in {"synthesize", "Communicate", "save"}
              => /\ i > 1
                 /\ trace[1] = "extract"
                 /\ ~Falsy(extracted)
    /\ (pc # "idle" /\ Falsy(extracted)) => (trace = <<"extract">> /\ spc = "idle")
    /\ files # files0 => Called("save")

C4_Witness ==
    /\ pc = "awaiting"
    /\ trace = <<"extract", "synthesize", "Communicate", "save">>
    /\ backend = "pending"

\* synthesize_speech was called in this conversion and returned False (it
\* neither raised an Exception nor was left by a CancelledError).
SynthReturnedFalse ==
    /\ Called("synthesize")
    /\ input.fault = "none"
    /\ backend # "CancelledError"
    /\ ~sret

\* C5 (as claimed): when synthesis fails the outcome is success=false and its
\* message is the diagnostic of the synthesizer.
C5_MessageIsDiagnostic ==
    (pc = "done" /\ SynthReturnedFalse)
        => /\ ~outcome.success
           /\ \/ outcome.message.template = slog
              \/ Contains(outcome.message, slog)

\* C5 (amended): when synthesize_speech returns False the outcome is
\* success=false with the one fixed message that points to the logs, whatever
\* the failure was; the diagnostic itself is only printed.
C5_FixedFailureMessage ==
    (pc = "done" /\ SynthReturnedFalse)
        => /\ outcome = Outcome("returned", FALSE, Msg("synthesis_failed", <<>>))
           /\ slog \in {"no_audio_received", "unexpected_error"}

C5_Witness ==
    /\ pc = "done"
    /\ input.fault = "none"
    /\ backend = "NoAudioReceived"
    /\ slog = "no_audio_received"
    /\ ~outcome.success

\* C6 (as claimed): one conversion calls the extractor at most once and the
\* synthesizer at most once, never goes back to an earlier step, and (the
\* backend call returning or raising) reaches its end having returned one
\* outcome.
C6_AlwaysReturnsOutcome ==
    /\ [](/\ Count("extract", trace) <= 1
          /\ Count("synthesize", trace) <= 1
          /\ Count("save", trace) <= 1
          /\ pc = "done" => outcome.status = "returned")
    /\ [][/\ pc = "awaiting" => pc' \in {"awaiting", "done"}
          /\ pc = "done" => pc' = "idle"
          /\ (pc = "awaiting" /\ spc = "returned") => spc' \in {"returned", "idle"}]_vars
    /\ (pc = "awaiting") ~> (pc = "done" /\ outcome.status = "returned")

\* C6 (amended): one conversion calls the extractor at most once and the
\* synthesizer at most once, never goes back to an earlier step and (the
\* backend ending the save) reaches its end; there it has returned one
\* outcome, unless the save ended with CancelledError: then the call has
\* raised CancelledError and returned nothing.
C6_OnePass ==
    /\ [](/\ Count("extract", trace) <= 1
          /\ Count("synthesize", trace) <= 1
          /\ Count("save", trace) <= 1
          /\ pc = "done" => /\ outcome.status \in {"returned", "raised"}
                            /\ outcome.status = "raised" <=> backend = "CancelledError"
                            /\ outcome.status = "raised" => outcome = Outcome("raised", FALSE, NoMsg))
    /\ [][/\ pc = "awaiting" => pc' \in {"awaiting", "done"}
          /\ pc = "done" => pc' = "idle"
          /\ (pc = "awaiting" /\ spc \in {"returned", "cancelled"})
                => spc' \in {spc, "idle"}]_vars
    /\ (pc = "awaiting") ~> (pc = "done")

C6_Witness ==
    /\ pc = "done"
    /\ outcome.status = "raised"
    /\ trace = <<"extract", "synthesize", "Communicate", "save">>
    /\ backend = "CancelledError"

\* C7 (as claimed): whatever the extractor or the synthesizer does, an
\* exception they let escape included, the conversion returns an outcome;
\* when either failed the outcome is (False, message).
C7_NothingPropagates ==
    pc = "done"
        => /\ outcome.status = "returned"
           /\ outcome.message # NoMsg
           /\ (input.fault # "none" \/ input.class # "Text" \/ ~sret) => ~outcome.success

\* C7 (amended): no Exception of the extractor or the synthesizer leaves the
\* conversion, one they let escape included: the conversion returns an
\* outcome, (False, message) when either failed.  The CancelledError of a
\* save cancelled while pending is no Exception: it leaves synthesize_speech
\* and the conversion, and no outcome is returned.
C7_OnlyCancellationPropagates ==
    /\ (pc = "done" /\ backend # "CancelledError")
          => /\ outcome.status = "returned"
             /\ outcome.message # NoMsg
             /\ (input.fault # "none" \/ input.class # "Text" \/ ~sret) => ~outcome.success
    /\ (pc = "done" /\ backend = "CancelledError")
          => /\ outcome = Outcome("raised", FALSE, NoMsg)
             /\ ~sret
             /\ slog = "starting"
    /\ spc = "cancelled" => backend = "CancelledError"
    /\ backend = "CancelledError" => spc \in {"saving", "cancelled", "idle"}

C7_Witness ==
    /\ pc = "done"
    /\ input.fault = "none"
    /\ backend = "CancelledError"
    /\ files[req.output_audio_path] = "partial"
    /\ outcome = Outcome("raised", FALSE, NoMsg)

\* C8: synthesize_speech with empty or whitespace-only text returns False at
\* once: no Communicate object, no save, no output path touched.
C8_BlankTextNoBackend ==
    (trace # <<>> /\ WhitespaceOnly(sargs.text))
        => /\ spc \in {"returned", "idle"}
           /\ ~sret
           /\ trace = <<"synthesize">>
           /\ backend = "idle"
           /\ files = files0

C8_Witness ==
    /\ spc = "returned"
    /\ sargs.text = <<5760, 32>>
    /\ ~sret

\* C9: synthesize_speech returns True only once save has ended without error
\* and the audio lies complete at output_filename; never while the save is
\* pending, never after it failed.
C9_SuccessAfterSave ==
    /\ sret => /\ spc \in {"returned", "idle"}
               /\ backend = "saved"
               /\ files[sargs.output_filename] = "complete"
    /\ backend \in {"pending", "NoAudioReceived", "Exception", "CancelledError"} => ~sret

C9_Witness ==
    /\ spc = "returned"
    /\ sret
    /\ backend = "saved"

\* C10: extract_text_from_pdf on a path that names no file returns None, the
\* failure result, having reported that the file was not found; it raises
\* nothing.
C10_MissingReturnsFailure ==
    (xfile.kind = "missing" /\ xres # NoResult)
        => /\ xres.raised = "none"
           /\ xres.ret = PyNone
           /\ xres.log = "not_found"

C10_Witness ==
    /\ xfile.kind = "missing"
    /\ xres # NoResult
    /\ xres.log = "not_found"

\* C11: extract_text_from_pdf on a readable PDF whose pages all yield empty or
\* whitespace-only text returns the failure result for "empty": the falsy ""
\* with the no-text warning printed, as the other failures are None with
\* their line printed. A result that is text (not falsy, nothing printed) is
\* never empty, and only a PDF with text gives one.
C11_EmptyIsFailure ==
    xres # NoResult
        => /\ FileClass(xfile) = "Empty"
                => /\ xres.raised = "none"
                   /\ xres.ret = PyStr(<<>>)
                   /\ Falsy(xres.ret)
                   /\ xres.log = "warning_no_text"
           /\ xres.log = "none" <=> ~Falsy(xres.ret)
           /\ ~Falsy(xres.ret) <=> FileClass(xfile) = "Text"

C11_Witness ==
    /\ xres # NoResult
    /\ xfile.kind = "pdf"
    /\ xfile.enc = "plain"
    /\ xfile.pages = << <<5760>>, <<32>> >>
    /\ xres.ret = PyStr(<<>>)
    /\ xres.log = "warning_no_text"

\* The text of pages ps laid out by position: page k starts after the k - 1
\* pages before it and one newline for each of them.
RECURSIVE PageOffset(_, _)
PageOffset(ps, k) == IF k = 1 THEN 0 ELSE PageOffset(ps, k - 1) + Len(ps[k - 1]) + 1
LaidOutLen(ps) == IF ps = <<>> THEN 0 ELSE PageOffset(ps, Len(ps)) + Len(ps[Len(ps)])
LaidOut(ps) ==
    [i \in 1..LaidOutLen(ps) |->
        IF \E k \in DOMAIN ps : PageOffset(ps, k) < i /\ i <= PageOffset(ps, k) + Len(ps[k])
        THEN LET k == CHOOSE k \in DOMAIN ps :
                          PageOffset(ps, k) < i /\ i <= PageOffset(ps, k) + Len(ps[k])
             IN  ps[k][i - PageOffset(ps, k)]
        ELSE 10]
\* r is t without its leading and trailing whitespace
IsTrimOf(r, t) ==
    \E a \in 0..Len(t) : \E b \in a..Len(t) :
        /\ r = [i \in 1..(b - a) |-> t[a + i]]
        /\ \A i \in 1..a : t[i] \in Whitespace
        /\ \A i \in (b + 1)..Len(t) : t[i] \in Whitespace
        /\ r # <<>> => (r[1] \notin Whitespace /\ r[Len(r)] \notin Whitespace)

\* C12: on a readable PDF that is not encrypted extract_text_from_pdf returns
\* the page texts in page order with one newline between consecutive pages,
\* leading and trailing whitespace of the whole removed; a one-page PDF with
\* text T gives T trimmed.
C12_PagesJoinedAndTrimmed ==
    (xres # NoResult /\ xfile.kind = "pdf" /\ xfile.enc = "plain")
        => /\ xres.raised = "none"
           /\ ~xres.ret.none
           /\ IsTrimOf(xres.ret.s, LaidOut(xfile.pages))
           /\ Len(xfile.pages) = 1 => IsTrimOf(xres.ret.s, xfile.pages[1])

C12_Witness ==
    /\ xres # NoResult
    /\ xfile.kind = "pdf"
    /\ xfile.enc = "plain"
    /\ xfile.pages = << <<5760, 97>>, <<97, 32>> >>
    /\ xres.ret.s = <<97, 10, 97>>

\* C13 (as claimed): list_available_voices with language "en" returns only
\* records whose locale starts with "en", whatever the catalog.
C13_OnlyLanguagePrefix ==
    (vres.called /\ vargs.language = PyStr(<<101, 110>>))  \* "en"
        => \A i \in DOMAIN vres.voices :
              StartsWith(Lower(vres.voices[i].Locale), <<101, 110>>)  \* "en"

\* No thread is running and no call is queued.
Quiescent ==
    /\ afterq = <<>>
    /\ \A t \in DOMAIN loaders : loaders[t].pc = "done"
    /\ \A t \in DOMAIN convs : convs[t].pc = "done"
\* Conversion thread t has been started and convert_pdf_to_speech has not ended.
InFlight(t) == convs[t].pc \in {"announce", "running"}

\* C14 (as claimed): while a conversion is in flight the Convert button is
\* disabled, under every interleaving of the loader's and the conversion's
\* queued calls, so that at most one conversion is in flight.
C14_ButtonOffWhileConverting ==
    /\ (\E t \in DOMAIN convs : InFlight(t)) => btn_convert = "disabled"
    /\ Cardinality({t \in DOMAIN convs : InFlight(t)}) <= 1

\* C15 (as claimed): when a second language was selected before the load for
\* the first had ended and both loads found voices, then once everything has
\* settled loaded_voices_map and the voice menu hold the voices of the second
\* language, whichever load ended first.
C15_LastLanguageWins ==
    (/\ Quiescent
     /\ Len(loaders) = 2
     /\ loaders[1].code # loaders[2].code
     /\ loaders[1].found # <<>>
     /\ loaders[2].found # <<>>)
        => /\ loaded_voices_map = VoicesMap(loaders[2].found)
           /\ voice_menu = Keys(VoicesMap(loaders[2].found))

\* C16 (as claimed): in every settled state where the Convert button is
\* enabled a PDF is selected and the selected voice is a key of
\* loaded_voices_map; and after a load that found no voices or failed the
\* button is disabled.
C16_EnabledMeansReady ==
    Quiescent
        => /\ btn_convert = "normal"
                => /\ selected_pdf_path # NoPath
                   /\ HasKey(loaded_voices_map, selected_voice)
           /\ (convs = <<>> /\ loaders[Len(loaders)].found = <<>>)
                => btn_convert = "disabled"

\* The status line shows how a conversion ended.
ResultShown == status_message.kind \in {"success", "failed", "unexpected_error"}
\* The call of conversion thread t has just ended: the thread has queued
\* nothing since.
CallEnded(t) ==
    \/ convs[t].pc = "report"
    \/ convs[t].pc = "finally" /\ convs[t].result \notin Reported

\* C17 (as claimed): a conversion is only ever started with a PDF selected and
\* a non-empty loaded_voices_map, and both stay so; once its call has returned
\* or raised, the status line eventually shows its result, the language menu
\* is eventually enabled again and so is the Convert button. Checked for the
\* window in which the language is left as it is.
C17_ResultShownControlsRestored ==
    /\ [](convs # <<>> => selected_pdf_path # NoPath /\ loaded_voices_map # <<>>)
    /\ \A result \in Reported : \A p \in GuiPdfPaths :
          (\E t \in DOMAIN convs :
                convs[t].pc = "report" /\ convs[t].result = result /\ convs[t].pdf_path = p)
             ~> (status_message = FinalStatus(result, OutputAudioPath(p)))
    /\ (\E t \in DOMAIN convs : CallEnded(t)) ~> ResultShown
    /\ (\E t \in DOMAIN convs : CallEnded(t)) ~> (language_options_menu = "normal")
    /\ (\E t \in DOMAIN convs : CallEnded(t)) ~> (btn_convert = "normal")

====
